---- MODULE Spec2Model ----
(***************************************************************************)
(* The ISO 8601 time-value codec of viresclient/time_util.py:              *)
(* parse_datetime, parse_duration and encode_duration, with the regular    *)
(* expressions they match and the datetime/timedelta arithmetic they call. *)
(*                                                                         *)
(* Representation.  A text is a sequence of one-character strings.  Python *)
(* None is the one-element sequence None.  A float that parse_duration     *)
(* builds is kept exact, as whole units and a count of 1/Scale units. Every*)
(* value that travels through a call is a record with a "kind" field:      *)
(* "text", "datetime", "timedelta" or "error".                             *)
(***************************************************************************)
EXTENDS Integers, Sequences, FiniteSets, TLC

VARIABLES calls

vars == <<calls>>

(***************************************************************************)
(* Characters, str and int                                                 *)
(***************************************************************************)
None == <<"None">>

Digits == {"0", "1", "2", "3", "4", "5", "6", "7", "8", "9"}

DigitVal(c) ==
    CASE c = "0" -> 0 [] c = "1" -> 1 [] c = "2" -> 2 [] c = "3" -> 3
      [] c = "4" -> 4 [] c = "5" -> 5 [] c = "6" -> 6 [] c = "7" -> 7
      [] c = "8" -> 8 [] c = "9" -> 9

DigitChar(d) ==
    CASE d = 0 -> "0" [] d = 1 -> "1" [] d = 2 -> "2" [] d = 3 -> "3"
      [] d = 4 -> "4" [] d = 5 -> "5" [] d = 6 -> "6" [] d = 7 -> "7"
      [] d = 8 -> "8" [] d = 9 -> "9"

\* The character at position i, "" past the end of the text.
At(text, i) == IF i >= 1 /\ i <= Len(text) THEN text[i] ELSE ""

Sub(text, i, n) == SubSeq(text, i, i + n - 1)

\* \d{n,n} at position i
IsDigits(text, i, n) == \A k \in i..(i + n - 1) : At(text, k) \in Digits

\* the length of the longest run of digits starting at position i (\d*)
RECURSIVE DigitRun(_, _)
DigitRun(text, i) ==
    IF At(text, i) \in Digits THEN 1 + DigitRun(text, i + 1) ELSE 0

\* "$" of a Python pattern: the end of the text, or just before a final newline
AtEnd(text, i) ==
    \/ i = Len(text) + 1
    \/ i = Len(text) /\ text[i] = "\n"

\* Python "x or d" on an optional text
Or(x, d) == IF x = None \/ x = <<>> THEN d ELSE x

RECURSIVE Natural(_)
Natural(chars) ==
    IF chars = <<>> THEN 0
    ELSE 10 * Natural(SubSeq(chars, 1, Len(chars) - 1)) + DigitVal(chars[Len(chars)])

\* int() of a decimal text with an optional sign
int(chars) ==
    IF At(chars, 1) = "-" THEN 0 - Natural(Tail(chars))
    ELSE IF At(chars, 1) = "+" THEN Natural(Tail(chars))
    ELSE Natural(chars)

RECURSIVE Decimal(_)
\* "%d" of a non-negative integer
Decimal(n) ==
    IF n < 10 THEN <<DigitChar(n)>>
    ELSE Decimal(n \div 10) \o <<DigitChar(n % 10)>>

(***************************************************************************)
(* Values                                                                  *)
(***************************************************************************)
Text(chars) == [kind |-> "text", chars |-> chars]

Error(type) == [kind |-> "error", type |-> type]

(***************************************************************************)
(* datetime.timedelta: days, seconds in 0..86399, microseconds in          *)
(* 0..999999, the magnitude of days at most 999999999.                     *)
(***************************************************************************)
MaxDeltaDays == 999999999

Normalized(d, s, us) ==
    LET s2 == s + (us \div 1000000)
        d2 == d + (s2 \div 86400)
    IN  IF d2 > MaxDeltaDays \/ d2 < 0 - MaxDeltaDays
        THEN Error("OverflowError")
        ELSE [kind |-> "timedelta", days |-> d2, seconds |-> s2 % 86400,
              microseconds |-> us % 1000000]

ZERO == Normalized(0, 0, 0)

\* timedelta(hours=h, minutes=m)
timedelta_hm(h, m) == Normalized(0, 3600 * h + 60 * m, 0)

\* -value
Negated(value) == Normalized(0 - value.days, 0 - value.seconds, 0 - value.microseconds)

(***************************************************************************)
(* class TimeZone(tzinfo); a tzinfo attribute is <<>> for None or <<tz>>.  *)
(***************************************************************************)
TimeZone(offset, label) == [offset |-> offset, label |-> label]

utcoffset(tz) == tz.offset

UTC == TimeZone(ZERO, <<"U", "T", "C">>)

NoZone == <<>>

(***************************************************************************)
(* datetime.datetime                                                       *)
(***************************************************************************)
MINYEAR == 1

MAXYEAR == 9999

IsLeap(y) == y % 4 = 0 /\ (y % 100 # 0 \/ y % 400 = 0)

DaysInMonth(y, m) ==
    IF m = 2 THEN (IF IsLeap(y) THEN 29 ELSE 28)
    ELSE IF m \in {4, 6, 9, 11} THEN 30 ELSE 31

DaysBeforeYear(y) ==
    LET p == y - 1 IN p * 365 + (p \div 4) - (p \div 100) + (p \div 400)

RECURSIVE DaysBeforeMonth(_, _)
DaysBeforeMonth(y, m) ==
    IF m = 1 THEN 0 ELSE DaysBeforeMonth(y, m - 1) + DaysInMonth(y, m - 1)

\* date.toordinal(): 1 is 0001-01-01
ymd2ord(y, m, d) == DaysBeforeYear(y) + DaysBeforeMonth(y, m) + d

MaxOrdinal == ymd2ord(MAXYEAR, 12, 31)

\* date.fromordinal()
ord2ymd(n) ==
    LET est == (n * 400) \div 146097
        y == CHOOSE c \in (est - 1)..(est + 2) :
                 DaysBeforeYear(c) < n /\ n <= DaysBeforeYear(c + 1)
        r == n - DaysBeforeYear(y)
        m == CHOOSE c \in 1..12 :
                 DaysBeforeMonth(y, c) < r /\ r <= DaysBeforeMonth(y, c) + DaysInMonth(y, c)
    IN  <<y, m, r - DaysBeforeMonth(y, m)>>

\* datetime(year, month, day, hour, minute, second, microsecond, tzinfo)
datetime(year, month, day, hour, minute, second, microsecond, tzinfo) ==
    IF \/ year < MINYEAR \/ year > MAXYEAR
       \/ month < 1 \/ month > 12
       \/ day < 1 \/ day > DaysInMonth(year, month)
       \/ hour < 0 \/ hour > 23
       \/ minute < 0 \/ minute > 59
       \/ second < 0 \/ second > 59
       \/ microsecond < 0 \/ microsecond > 999999
    THEN Error("ValueError")
    ELSE [kind |-> "datetime", year |-> year, month |-> month, day |-> day,
          hour |-> hour, minute |-> minute, second |-> second,
          microsecond |-> microsecond, tzinfo |-> tzinfo]

\* value - delta, the tzinfo kept
datetime_sub(value, delta) ==
    LET us == value.microsecond - delta.microseconds
        s == 3600 * value.hour + 60 * value.minute + value.second
                 - delta.seconds + (us \div 1000000)
        n == ymd2ord(value.year, value.month, value.day) - delta.days + (s \div 86400)
        sod == s % 86400
    IN  IF n < 1 \/ n > MaxOrdinal THEN Error("OverflowError")
        ELSE LET ymd == ord2ymd(n)
             IN  [kind |-> "datetime", year |-> ymd[1], month |-> ymd[2], day |-> ymd[3],
                  hour |-> sod \div 3600, minute |-> (sod \div 60) % 60,
                  second |-> sod % 60, microsecond |-> us % 1000000,
                  tzinfo |-> value.tzinfo]

\* value.astimezone(tz).replace(tzinfo=None): the offset a tzinfo returns must
\* lie strictly between -24 h and 24 h
astimezone_naive(value) ==
    LET offset == utcoffset(value.tzinfo[1])
    IN  IF offset.days > 0 \/ offset.days < -1
           \/ (offset.days = -1 /\ offset.seconds = 0 /\ offset.microseconds = 0)
        THEN Error("ValueError")
        ELSE LET utc == datetime_sub(value, offset)
             IN  IF utc.kind = "error" THEN utc ELSE [utc EXCEPT !.tzinfo = NoZone]

\* to_utc_naive that strips the zone without converting: value.replace(tzinfo=None)
to_utc_naive_strip(value) == [value EXCEPT !.tzinfo = NoZone]

to_utc_naive(value) ==
    IF value.tzinfo # NoZone THEN astimezone_naive(value) ELSE value

(***************************************************************************)
(* RE_ISO_8601_DATETIME_LONG and RE_ISO_8601_DATETIME_SHORT.  A match is   *)
(* the tuple of the ten groups (None for a group that took no part),       *)
(* NoMatch otherwise.  Every optional part of the two patterns is followed *)
(* by something that cannot start where the part starts, so the greedy     *)
(* reading is the only one.                                                *)
(***************************************************************************)
NoMatch == <<>>

\* (?:[.,](\d{0,6})\d*)? at position i: <<group, next position>>
Fraction(text, i) ==
    IF At(text, i) \in {".", ","}
    THEN LET n == DigitRun(text, i + 1)
         IN  <<Sub(text, i + 1, IF n < 6 THEN n ELSE 6), i + 1 + n>>
    ELSE <<None, i>>

\* (Z|([+-]\d{2,2})(?::(\d{2,2}))?)? at position i:
\* <<tzone, tz_hour, tz_min, next position>>
LongZone(text, i) ==
    IF At(text, i) = "Z" THEN <<<<"Z">>, None, None, i + 1>>
    ELSE IF At(text, i) \in {"+", "-"} /\ IsDigits(text, i + 1, 2)
    THEN IF At(text, i + 3) = ":" /\ IsDigits(text, i + 4, 2)
         THEN <<Sub(text, i, 6), Sub(text, i, 3), Sub(text, i + 4, 2), i + 6>>
         ELSE <<Sub(text, i, 3), Sub(text, i, 3), None, i + 3>>
    ELSE <<None, None, None, i>>

\* ShortZone with the minutes read as the long pattern reads them, after a ':'
ShortZone_colon(text, i) == LongZone(text, i)

\* (Z|([+-]\d{2,2})(\d{2,2})?)? at position i
ShortZone(text, i) ==
    IF At(text, i) = "Z" THEN <<<<"Z">>, None, None, i + 1>>
    ELSE IF At(text, i) \in {"+", "-"} /\ IsDigits(text, i + 1, 2)
    THEN IF IsDigits(text, i + 3, 2)
         THEN <<Sub(text, i, 5), Sub(text, i, 3), Sub(text, i + 3, 2), i + 5>>
         ELSE <<Sub(text, i, 3), Sub(text, i, 3), None, i + 3>>
    ELSE <<None, None, None, i>>

RE_ISO_8601_DATETIME_LONG(text) ==
    IF ~(/\ IsDigits(text, 1, 4) /\ At(text, 5) = "-"
         /\ IsDigits(text, 6, 2) /\ At(text, 8) = "-"
         /\ IsDigits(text, 9, 2))
    THEN NoMatch
    ELSE LET year == Sub(text, 1, 4)
             month == Sub(text, 6, 2)
             day == Sub(text, 9, 2)
         IN  IF /\ At(text, 11) = "T" /\ IsDigits(text, 12, 2)
                /\ At(text, 14) = ":" /\ IsDigits(text, 15, 2)
             THEN LET hasSec == At(text, 17) = ":" /\ IsDigits(text, 18, 2)
                      sec == IF hasSec THEN Sub(text, 18, 2) ELSE None
                      frac == IF hasSec THEN Fraction(text, 20) ELSE <<None, 17>>
                      zone == LongZone(text, frac[2])
                  IN  IF AtEnd(text, zone[4])
                      THEN <<year, month, day, Sub(text, 12, 2), Sub(text, 15, 2),
                             sec, frac[1], zone[1], zone[2], zone[3]>>
                      ELSE NoMatch
             ELSE IF AtEnd(text, 11)
             THEN <<year, month, day, None, None, None, None, None, None, None>>
             ELSE NoMatch

RE_ISO_8601_DATETIME_SHORT(text) ==
    IF ~(IsDigits(text, 1, 4) /\ IsDigits(text, 5, 2) /\ IsDigits(text, 7, 2))
    THEN NoMatch
    ELSE LET year == Sub(text, 1, 4)
             month == Sub(text, 5, 2)
             day == Sub(text, 7, 2)
         IN  IF At(text, 9) = "T" /\ IsDigits(text, 10, 2) /\ IsDigits(text, 12, 2)
             THEN LET hasSec == IsDigits(text, 14, 2)
                      sec == IF hasSec THEN Sub(text, 14, 2) ELSE None
                      frac == IF hasSec THEN Fraction(text, 16) ELSE <<None, 14>>
                      zone == ShortZone(text, frac[2])
                  IN  IF AtEnd(text, zone[4])
                      THEN <<year, month, day, Sub(text, 10, 2), Sub(text, 12, 2),
                             sec, frac[1], zone[1], zone[2], zone[3]>>
                      ELSE NoMatch
             ELSE IF AtEnd(text, 9)
             THEN <<year, month, day, None, None, None, None, None, None, None>>
             ELSE NoMatch

(***************************************************************************)
(* parse_datetime                                                          *)
(***************************************************************************)
\* OffsetZone with the sign of the hour field left off the minutes:
\* minutes=int(tz_min or '0')
OffsetZone_unsigned(tz_hour, tz_min) ==
    TimeZone(timedelta_hm(int(Or(tz_hour, <<"0">>)), int(Or(tz_min, <<"0">>))),
             tz_hour \o <<":">> \o Or(tz_min, <<"0", "0">>))

\* the zone of an explicit offset: TimeZone(timedelta(hours=int(tz_hour or 0),
\* minutes=int(tz_hour[0] + (tz_min or '0'))), "%s:%s" % (tz_hour, tz_min or "00"))
OffsetZone(tz_hour, tz_min) ==
    TimeZone(timedelta_hm(int(Or(tz_hour, <<"0">>)),
                          int(<<tz_hour[1]>> \o Or(tz_min, <<"0">>))),
             tz_hour \o <<":">> \o Or(tz_min, <<"0", "0">>))

\* the tzinfo handed to the datetime constructor
tz_obj(tzone, tz_hour, tz_min, tz_local) ==
    IF tzone # None /\ tzone # <<>>
    THEN IF tzone = <<"Z">> THEN <<UTC>> ELSE <<OffsetZone(tz_hour, tz_min)>>
    ELSE tz_local

\* int(((usec or '') + '000000')[:6])
Microseconds(usec) ==
    int(SubSeq(Or(usec, <<>>) \o <<"0", "0", "0", "0", "0", "0">>, 1, 6))

\* for pattern in (LONG, SHORT): match = pattern.match(value); if match: break
FirstMatch(text) ==
    IF RE_ISO_8601_DATETIME_LONG(text) # NoMatch
    THEN RE_ISO_8601_DATETIME_LONG(text)
    ELSE RE_ISO_8601_DATETIME_SHORT(text)

parse_datetime(value, tz_local) ==
    IF value.kind = "datetime" THEN to_utc_naive(value)
    ELSE LET match == FirstMatch(value.chars)
         IN  IF match = NoMatch THEN Error("ValueError")
             ELSE LET built == datetime(
                          int(match[1]), int(match[2]), int(Or(match[3], <<"0">>)),
                          int(Or(match[4], <<"0">>)), int(Or(match[5], <<"0">>)),
                          int(Or(match[6], <<"0">>)), Microseconds(match[7]),
                          tz_obj(match[8], match[9], match[10], tz_local))
                  IN  IF built.kind = "error" THEN built ELSE to_utc_naive(built)

(***************************************************************************)
(* RE_ISO_8601_DURATION.  A match is the tuple of the groups               *)
(* <<sign, years, months, days, hours, minutes, seconds>>.  "1M" can be    *)
(* the months or the minutes, so the optional parts are tried as the       *)
(* pattern tries them: each one taken first, and skipped when the rest of  *)
(* the text does not match with it taken.                                  *)
(***************************************************************************)
\* \d+(\.\d+)? at position i: the length of the number, 0 when there is none
NumberLen(text, i) ==
    LET n == DigitRun(text, i)
        f == DigitRun(text, i + n + 1)
    IN  IF n > 0 /\ At(text, i + n) = "." /\ f > 0 THEN n + 1 + f ELSE n

\* the designator letter of each stage of the pattern; stage 4 is "T?"
Designator == <<"Y", "M", "D", "T", "H", "M", "S">>

\* the group a stage fills
GroupOf(stage) == IF stage < 4 THEN stage + 1 ELSE stage

RECURSIVE DurationRest(_, _, _, _)
DurationRest(text, i, stage, groups) ==
    IF stage = 8
    THEN IF AtEnd(text, i) THEN groups ELSE NoMatch
    ELSE IF stage = 4
    THEN LET taken == IF At(text, i) = "T"
                      THEN DurationRest(text, i + 1, 5, groups) ELSE NoMatch
         IN  IF taken # NoMatch THEN taken ELSE DurationRest(text, i, 5, groups)
    ELSE LET n == NumberLen(text, i)
             taken == IF n > 0 /\ At(text, i + n) = Designator[stage]
                      THEN DurationRest(text, i + n + 1, stage + 1,
                               [groups EXCEPT ![GroupOf(stage)] = Sub(text, i, n)])
                      ELSE NoMatch
         IN  IF taken # NoMatch THEN taken
             ELSE DurationRest(text, i, stage + 1, groups)

RE_ISO_8601_DURATION(text) ==
    LET signed == At(text, 1) \in {"+", "-"}
        start == IF signed THEN 2 ELSE 1
        sign == IF signed THEN <<text[1]>> ELSE None
    IN  IF At(text, start) = "P"
        THEN DurationRest(text, start + 1, 1,
                          <<sign, None, None, None, None, None, None>>)
        ELSE NoMatch

(***************************************************************************)
(* float: exact, the pair <<whole, part>> of the whole units and the       *)
(* count of 1/Scale units, 0 <= part < Scale.  The numbers the model       *)
(* parses have at most six fractional digits, so every sum is a whole      *)
(* number of microseconds and timedelta has nothing to round.              *)
(***************************************************************************)
Scale == 1000000

ScaleDigits == <<"0", "0", "0", "0", "0", "0">>

\* float(chars) of a text matching \d+(\.\d+)?
float(chars) ==
    LET n == DigitRun(chars, 1)
        frac == SubSeq(chars, n + 2, Len(chars))
    IN  <<Natural(Sub(chars, 1, n)),
          Natural(SubSeq(frac \o ScaleDigits, 1, Len(ScaleDigits)))>>

\* a + b
FloatAdd(a, b) == <<a[1] + b[1] + ((a[2] + b[2]) \div Scale), (a[2] + b[2]) % Scale>>

\* a * k, k an integer
FloatMul(a, k) == <<a[1] * k + ((a[2] * k) \div Scale), (a[2] * k) % Scale>>

\* timedelta(days, fsec) of two floats: the fraction of the day count is
\* days[2] * 86400 / Scale seconds, counted here in 100 / Scale seconds
timedelta(days, fsec) ==
    LET fromDays == days[2] * 864
        unit == Scale \div 100
    IN  Normalized(days[1],
                   (fromDays \div unit) + fsec[1],
                   (fromDays % unit) * 100 + fsec[2])

(***************************************************************************)
(* parse_duration                                                          *)
(***************************************************************************)
\* sign_of that never sees the '-'
sign_of_positive(match) == 1

\* sign = -1 if match['sign'] == "-" else 1
sign_of(match) == IF match[1] = <<"-">> THEN -1 ELSE 1

\* days_of with a month of 31 days
days_of_31(match) ==
    FloatAdd(FloatAdd(float(Or(match[4], <<"0">>)),
                      FloatMul(float(Or(match[3], <<"0">>)), 31)),
             FloatMul(float(Or(match[2], <<"0">>)), 365))

\* days_of that starts from the months and forgets the day component
days_of_no_days(match) ==
    FloatAdd(FloatMul(float(Or(match[3], <<"0">>)), 30),
             FloatMul(float(Or(match[2], <<"0">>)), 365))

\* days = float(days or 0) + float(months or 0) * 30 + float(years or 0) * 365
days_of(match) ==
    FloatAdd(FloatAdd(float(Or(match[4], <<"0">>)),
                      FloatMul(float(Or(match[3], <<"0">>)), 30)),
             FloatMul(float(Or(match[2], <<"0">>)), 365))

\* fsec = float(seconds or 0) + float(minutes or 0) * 60 + float(hours or 0) * 3600
fsec_of(match) ==
    FloatAdd(FloatAdd(float(Or(match[7], <<"0">>)),
                      FloatMul(float(Or(match[6], <<"0">>)), 60)),
             FloatMul(float(Or(match[5], <<"0">>)), 3600))

parse_duration(value) ==
    IF value.kind = "timedelta" THEN value
    ELSE LET match == RE_ISO_8601_DURATION(value.chars)
         IN  IF match = NoMatch THEN Error("ValueError")
             ELSE IF sign_of(match) < 0 THEN Error("ValueError")
             ELSE timedelta(days_of(match), fsec_of(match))

(***************************************************************************)
(* encode_duration                                                         *)
(***************************************************************************)
\* "%.6fS" % (seconds + 1e-6 * microseconds): the microseconds in six digits
Fixed6(seconds, microseconds) ==
    LET us == Decimal(microseconds)
    IN  Decimal(seconds) \o <<".">>
            \o SubSeq(<<"0", "0", "0", "0", "0", "0">>, 1, 6 - Len(us)) \o us \o <<"S">>

\* sign_items that never emits the '-'
sign_items_none(value) == <<>>

\* the leading '-' of a negative value
sign_items(value) == IF value.days < 0 THEN <<"-">> ELSE <<>>

\* the value encoded after the sign: value, or -value when value.days < 0
magnitude(value) == IF value.days < 0 THEN Negated(value) ELSE value

\* day_items without the 'T0S' of the zero interval
day_items_no_zero(value) ==
    IF value.days # 0 THEN Decimal(value.days) \o <<"D">> ELSE <<>>

\* '%dD' for a non-zero day count, 'T0S' for the zero interval
day_items(value) ==
    IF value.days # 0 THEN Decimal(value.days) \o <<"D">>
    ELSE IF value.seconds = 0 /\ value.microseconds = 0 THEN <<"T", "0", "S">>
    ELSE <<>>

\* second_items that always writes whole seconds ('%dS'), the microseconds lost
second_items_whole(seconds, microseconds) ==
    IF seconds # 0 \/ microseconds # 0 THEN Decimal(seconds) \o <<"S">> ELSE <<>>

\* the seconds designator
second_items(seconds, microseconds) ==
    IF microseconds # 0 THEN Fixed6(seconds, microseconds)
    ELSE IF seconds # 0 THEN Decimal(seconds) \o <<"S">>
    ELSE <<>>

\* 'T' and the hours, minutes and seconds of a non-zero time of day
time_items(value) ==
    IF value.seconds # 0 \/ value.microseconds # 0
    THEN LET minutes0 == value.seconds \div 60
             seconds == value.seconds % 60
             hours == minutes0 \div 60
             minutes == minutes0 % 60
         IN  <<"T">>
                 \o (IF hours # 0 THEN Decimal(hours) \o <<"H">> ELSE <<>>)
                 \o (IF minutes # 0 THEN Decimal(minutes) \o <<"M">> ELSE <<>>)
                 \o second_items(seconds, value.microseconds)
    ELSE <<>>

encode_duration(value) ==
    IF value.kind # "timedelta" THEN Error("ValueError")
    ELSE Text(sign_items(value) \o <<"P">> \o day_items(magnitude(value))
                  \o time_items(magnitude(value)))

(***************************************************************************)
(* The callers' inputs.  A date-time or duration text is spelt from the    *)
(* fields the caller means; a field left out is the empty text.            *)
(***************************************************************************)
\* n in w digits
Pad(n, w) ==
    LET d == Decimal(n)
    IN  SubSeq(<<"0", "0", "0", "0", "0", "0">>, 1, w - Len(d)) \o d

DatesIn == {<<1, 1, 1>>, <<2020, 2, 29>>, <<2020, 12, 31>>, <<9999, 12, 31>>,
            <<2019, 2, 29>>, <<2020, 13, 1>>}

TimesIn == {<<0, 0>>, <<23, 59>>, <<24, 0>>}

SecondsOfTimeIn == {<<>>, <<"5", "9">>}

FractionsIn == {<<>>, <<".">>, <<".", "5">>,
                <<",", "1", "2", "3", "4", "5", "6", "7">>}

ZoneHoursIn == {<<"0", "0">>, <<"0", "5">>, <<"2", "4">>}

ZoneMinutesIn == {<<>>, <<"3", "0">>, <<"9", "9">>}

ZonesIn ==
    {<<>>, <<"Z">>}
        \cup {<<s>> \o h \o m : s \in {"+", "-"}, h \in ZoneHoursIn, m \in ZoneMinutesIn}

DateTimeFields ==
    {[year |-> Pad(d[1], 4), month |-> Pad(d[2], 2), day |-> Pad(d[3], 2),
      hour |-> <<>>, minute |-> <<>>, sec |-> <<>>, frac |-> <<>>, zone |-> z]
        : d \in DatesIn, z \in {<<>>, <<"Z">>}}
    \cup
    {[year |-> Pad(d[1], 4), month |-> Pad(d[2], 2), day |-> Pad(d[3], 2),
      hour |-> Pad(t[1], 2), minute |-> Pad(t[2], 2), sec |-> s, frac |-> f,
      zone |-> z]
        : d \in DatesIn, t \in TimesIn, s \in SecondsOfTimeIn, f \in FractionsIn,
          z \in ZonesIn}

\* YYYY-MM-DDTHH:MM:SS[.f][Z|+HH:MM]
LongText(f) ==
    f.year \o <<"-">> \o f.month \o <<"-">> \o f.day
        \o (IF f.hour # <<>> THEN <<"T">> \o f.hour \o <<":">> \o f.minute ELSE <<>>)
        \o (IF f.sec # <<>> THEN <<":">> \o f.sec ELSE <<>>)
        \o f.frac
        \o (IF Len(f.zone) = 5
            THEN Sub(f.zone, 1, 3) \o <<":">> \o Sub(f.zone, 4, 2) ELSE f.zone)

\* YYYYMMDDTHHMMSS[.f][Z|+HHMM]
ShortText(f) ==
    f.year \o f.month \o f.day
        \o (IF f.hour # <<>> THEN <<"T">> \o f.hour \o f.minute ELSE <<>>)
        \o f.sec \o f.frac \o f.zone

Spelt(f, form) == IF form = "long" THEN LongText(f) ELSE ShortText(f)

RawDateTimeTexts ==
    {<<>>,
     <<"n", "o", "t", "-", "a", "-", "d", "a", "t", "e">>,
     <<"2", "0", "2", "0", "-", "0", "1", "-", "0", "1", "\n">>,
     <<"2", "0", "2", "0", "-", "0", "1", "-", "0", "1", "T", "1", "2">>,
     <<"2", "0", "2", "0", "-", "1", "-", "1">>,
     <<"2", "0", "2", "0", "0", "1", "0", "1", "T", "1", "2", "0", "0", "\n">>,
     <<"2", "0", "2", "0", "0", "1", "0", "1", "T", "1", "2", "0", "0", "5">>,
     <<"2", "0", "2", "0", "-", "0", "1", "-", "0", "1", " ">>}

\* the assumed local zone a caller may hand to parse_datetime
AssumedZones ==
    {NoZone,
     <<TimeZone(timedelta_hm(2, 0), <<"+", "0", "2", ":", "0", "0">>)>>,
     <<TimeZone(timedelta_hm(-5, -30), <<"-", "0", "5", ":", "3", "0">>)>>}

\* already-typed timestamps
Timestamps ==
    {datetime(d[1], d[2], d[3], t[1], t[2], t[3], t[4], z)
        : d \in {<<1, 1, 1>>, <<2020, 2, 29>>, <<2020, 12, 31>>, <<9999, 12, 31>>},
          t \in {<<0, 0, 0, 0>>, <<12, 30, 15, 500000>>, <<23, 59, 59, 999999>>},
          z \in AssumedZones \cup {<<UTC>>}}

YearsIn == {<<>>, <<"1">>, <<"0", ".", "5">>}

MonthsIn == {<<>>, <<"2">>, <<"1", ".", "5">>}

DaysIn == {<<>>, <<"0">>, <<"1">>, <<"1", ".", "2", "5">>}

HoursIn == {<<>>, <<"2">>, <<"2", "5">>}

MinutesIn == {<<>>, <<"3", "0">>, <<"0", ".", "5">>}

SecondsIn == {<<>>, <<"0">>, <<"6", ".", "5">>, <<"0", ".", "0", "0", "0", "1">>}

DurationFields ==
    [sign : {<<>>, <<"+">>, <<"-">>}, years : YearsIn, months : MonthsIn,
     days : DaysIn, hours : HoursIn, minutes : MinutesIn, seconds : SecondsIn]

Part(number, designator) == IF number # <<>> THEN number \o <<designator>> ELSE <<>>

\* [sign]P[nY][nM][nD][T[nH][nM][nS]]
DurationText(f) ==
    f.sign \o <<"P">> \o Part(f.years, "Y") \o Part(f.months, "M") \o Part(f.days, "D")
        \o (IF f.hours # <<>> \/ f.minutes # <<>> \/ f.seconds # <<>>
            THEN <<"T">> \o Part(f.hours, "H") \o Part(f.minutes, "M")
                     \o Part(f.seconds, "S")
            ELSE <<>>)

RawDurationTexts ==
    {<<>>, <<"P">>, <<"P", "T">>, <<"-">>, <<"X">>, <<"-", "X">>, <<"P", "1">>,
     <<"-", "P", "1">>, <<"P", "T", "1">>, <<"1", "D">>, <<"P", "1", ".", "D">>,
     <<"P", ".", "5", "D">>, <<"P", "2", "M", "1", "Y">>, <<"P", "1", "M", "2", "M">>,
     <<"P", "1", "H">>, <<"P", "1", "D", "T">>, <<"P", "1", "D", "\n">>,
     <<"P", "0", "1", "D">>, <<"P", "-", "1", "D">>, <<"p", "1", "d">>}

MaxDayCount == 12

\* the day counts n of the day-only texts P<n>D
DayCounts == (0..MaxDayCount) \cup {MaxDeltaDays, MaxDeltaDays + 1}

DayText(n) == <<"P">> \o Decimal(n) \o <<"D">>

MaxDays == 2

\* already-typed elapsed times, timedelta.min and timedelta.max among them
ElapsedTimes ==
    {[kind |-> "timedelta", days |-> d, seconds |-> s, microseconds |-> u]
        : d \in (0 - MaxDays)..MaxDays,
          s \in {0, 5, 60, 3600, 3661, 86399},
          u \in {0, 1, 500000, 999999}}
    \cup {[kind |-> "timedelta", days |-> 0 - MaxDeltaDays, seconds |-> 0,
           microseconds |-> 0],
          [kind |-> "timedelta", days |-> MaxDeltaDays, seconds |-> 86399,
           microseconds |-> 999999]}

(***************************************************************************)
(* The calls.  calls is the log of the calls made so far, each with the    *)
(* fields the caller spelt (given), the argument, the assumed zone and the *)
(* value returned or the error raised.  A later call may take the value    *)
(* the call before it returned.                                            *)
(***************************************************************************)
MaxCalls == 2

Call(op, given, arg, tz_local, ret) ==
    [op |-> op, given |-> given, arg |-> arg, tz_local |-> tz_local, ret |-> ret]

Last == calls[Len(calls)]

Init == calls = <<>>

ParseDatetimeText ==
    /\ calls = <<>>
    /\ \E f \in DateTimeFields, form \in {"long", "short"}, tz \in AssumedZones :
          calls' = <<Call("parse_datetime", [form |-> form, fields |-> f],
                          Text(Spelt(f, form)), tz,
                          parse_datetime(Text(Spelt(f, form)), tz))>>

ParseDatetimeRaw ==
    /\ calls = <<>>
    /\ \E t \in RawDateTimeTexts, tz \in AssumedZones :
          calls' = <<Call("parse_datetime", [form |-> "raw"], Text(t), tz,
                          parse_datetime(Text(t), tz))>>

ParseDatetimeTyped ==
    /\ calls = <<>>
    /\ \E v \in Timestamps, tz \in AssumedZones :
          calls' = <<Call("parse_datetime", [form |-> "typed"], v, tz,
                          parse_datetime(v, tz))>>

\* parse_datetime of the timestamp the call before returned
ParseDatetimeAgain ==
    /\ calls # <<>> /\ Len(calls) < MaxCalls
    /\ Last.op = "parse_datetime" /\ Last.ret.kind = "datetime"
    /\ calls' = Append(calls, Call("parse_datetime", [form |-> "typed"], Last.ret,
                                   Last.tz_local,
                                   parse_datetime(Last.ret, Last.tz_local)))

ParseDurationText ==
    /\ calls = <<>>
    /\ \E f \in DurationFields :
          calls' = <<Call("parse_duration", [form |-> "fields", fields |-> f],
                          Text(DurationText(f)), NoZone,
                          parse_duration(Text(DurationText(f))))>>

ParseDurationDays ==
    /\ calls = <<>>
    /\ \E n \in DayCounts :
          calls' = <<Call("parse_duration", [form |-> "days", n |-> n],
                          Text(DayText(n)), NoZone, parse_duration(Text(DayText(n))))>>

ParseDurationRaw ==
    /\ calls = <<>>
    /\ \E t \in RawDurationTexts :
          calls' = <<Call("parse_duration", [form |-> "raw"], Text(t), NoZone,
                          parse_duration(Text(t)))>>

ParseDurationTyped ==
    /\ calls = <<>>
    /\ \E v \in ElapsedTimes :
          calls' = <<Call("parse_duration", [form |-> "typed"], v, NoZone,
                          parse_duration(v))>>

EncodeDuration ==
    /\ calls = <<>>
    /\ \E v \in ElapsedTimes :
          calls' = <<Call("encode_duration", [form |-> "typed"], v, NoZone,
                          encode_duration(v))>>

\* encode_duration of the elapsed time the call before returned
EncodeParsed ==
    /\ calls # <<>> /\ Len(calls) < MaxCalls
    /\ Last.op = "parse_duration" /\ Last.ret.kind = "timedelta"
    /\ calls' = Append(calls, Call("encode_duration", [form |-> "typed"], Last.ret,
                                   NoZone, encode_duration(Last.ret)))

\* parse_duration of the text the call before returned
ParseEncoded ==
    /\ calls # <<>> /\ Len(calls) < MaxCalls
    /\ Last.op = "encode_duration" /\ Last.ret.kind = "text"
    /\ calls' = Append(calls, Call("parse_duration", [form |-> "raw"], Last.ret,
                                   NoZone, parse_duration(Last.ret)))

Next ==
    \/ ParseDatetimeText
    \/ ParseDatetimeRaw
    \/ ParseDatetimeTyped
    \/ ParseDatetimeAgain
    \/ ParseDurationText
    \/ ParseDurationDays
    \/ ParseDurationRaw
    \/ ParseDurationTyped
    \/ EncodeDuration
    \/ EncodeParsed
    \/ ParseEncoded

Spec == Init /\ [][Next]_vars

(***************************************************************************)
(* What the callers wrote, read off the fields they spelt                  *)
(***************************************************************************)
Number2(chars) == IF chars = <<>> THEN 0 ELSE Natural(chars)

\* the microseconds a written fraction stands for: six digits, the rest cut
WrittenMicroseconds(frac) ==
    IF frac = <<>> THEN 0
    ELSE Natural(SubSeq(Tail(frac) \o <<"0", "0", "0", "0", "0", "0">>, 1, 6))

\* the minutes east of UTC a written zone stands for: s * (60 * HH + MM)
WrittenOffset(zone) ==
    IF Len(zone) < 3 THEN 0
    ELSE (IF zone[1] = "-" THEN -1 ELSE 1)
             * (60 * Natural(Sub(zone, 2, 2))
                    + (IF Len(zone) = 5 THEN Natural(Sub(zone, 4, 2)) ELSE 0))

\* the minutes east of UTC of a tzinfo attribute, 0 for None
ZoneMinutes(tzinfo) ==
    IF tzinfo = NoZone THEN 0
    ELSE (tzinfo[1].offset.days * 86400 + tzinfo[1].offset.seconds) \div 60

\* a civil time moved back by `minutes`: <<day ordinal, minute of the day,
\* second, microsecond>>
Shifted(year, month, day, hour, minute, second, microsecond, minutes) ==
    LET total == 60 * hour + minute - minutes
    IN  <<ymd2ord(year, month, day) + (total \div 1440), total % 1440,
          second, microsecond>>

\* the civil time of a timestamp, as Shifted gives it
Civil(v) == Shifted(v.year, v.month, v.day, v.hour, v.minute, v.second, v.microsecond, 0)

\* the civil time the fields f spell, moved back by `minutes`
WrittenShifted(f, minutes) ==
    Shifted(Natural(f.year), Natural(f.month), Natural(f.day), Number2(f.hour),
            Number2(f.minute), Number2(f.sec), WrittenMicroseconds(f.frac), minutes)

Spelled(c) == c.given.form \in {"long", "short"}

OtherForm(form) == IF form = "long" THEN "short" ELSE "long"

(***************************************************************************)
(* C1: a long-form and a short-form text spelling the same fields get the  *)
(* same timestamp from parse_datetime, or both fail.                       *)
(***************************************************************************)
C1_LongShortAgree ==
    \A i \in DOMAIN calls :
        LET c == calls[i]
        IN  c.op = "parse_datetime" /\ Spelled(c) =>
                LET other == parse_datetime(
                                 Text(Spelt(c.given.fields, OtherForm(c.given.form))),
                                 c.tz_local)
                IN  \/ c.ret.kind = "error" /\ other.kind = "error"
                    \/ c.ret.kind = "datetime" /\ other.kind = "datetime"
                           /\ c.ret = other

C1_Witness ==
    \E i \in DOMAIN calls :
        /\ calls[i].op = "parse_datetime" /\ Spelled(calls[i])
        /\ calls[i].given.form = "short"
        /\ calls[i].given.fields.frac # <<>>
        /\ Len(calls[i].given.fields.zone) = 5
        /\ calls[i].ret.kind = "datetime"

(***************************************************************************)
(* C2: for an accepted text with an explicit offset sHH[:MM] the timestamp *)
(* returned is the written civil time moved back by s * (60 * HH + MM)     *)
(* minutes, the sign applying to hours and minutes alike; Z moves it by 0. *)
(***************************************************************************)
C2_OffsetShift ==
    \A i \in DOMAIN calls :
        LET c == calls[i]
        IN  /\ c.op = "parse_datetime" /\ Spelled(c)
            /\ c.given.fields.zone # <<>>
            /\ c.ret.kind = "datetime"
            => Civil(c.ret)
                   = WrittenShifted(c.given.fields, WrittenOffset(c.given.fields.zone))

C2_Witness ==
    \E i \in DOMAIN calls :
        /\ calls[i].op = "parse_datetime" /\ Spelled(calls[i])
        /\ calls[i].given.fields.zone = <<"-", "0", "5", "3", "0">>
        /\ calls[i].given.fields.hour = <<"2", "3">>
        /\ calls[i].ret.kind = "datetime"
        /\ calls[i].ret.hour = 5 /\ calls[i].ret.minute = 29

(***************************************************************************)
(* C3: for an accepted duration text without a '-' sign parse_duration     *)
(* returns 365 * years + 30 * months + days days plus                      *)
(* 3600 * hours + 60 * minutes + seconds seconds, a component left out     *)
(* counting as zero.                                                       *)
(***************************************************************************)
Written(number) == IF number = <<>> THEN <<0, 0>> ELSE float(number)

C3_DurationValue ==
    \A i \in DOMAIN calls :
        LET c == calls[i]
            f == c.given.fields
        IN  /\ c.op = "parse_duration" /\ c.given.form = "fields"
            /\ f.sign # <<"-">>
            /\ c.ret.kind # "error"
            => c.ret = timedelta(
                   FloatAdd(FloatAdd(FloatMul(Written(f.years), 365),
                                     FloatMul(Written(f.months), 30)),
                            Written(f.days)),
                   FloatAdd(FloatAdd(FloatMul(Written(f.hours), 3600),
                                     FloatMul(Written(f.minutes), 60)),
                            Written(f.seconds)))

\* P1DT2H30M is 1 day and 9000 seconds
C3_Witness ==
    \E i \in DOMAIN calls :
        /\ calls[i].op = "parse_duration"
        /\ calls[i].arg = Text(<<"P", "1", "D", "T", "2", "H", "3", "0", "M">>)
        /\ calls[i].ret = [kind |-> "timedelta", days |-> 1, seconds |-> 9000,
                           microseconds |-> 0]

(***************************************************************************)
(* C4: parse_duration raises ValueError for every text that starts with a  *)
(* '-', a zero magnitude included, and returns no value for it.            *)
(***************************************************************************)
C4_NegativeSignRejected ==
    \A i \in DOMAIN calls :
        LET c == calls[i]
        IN  /\ c.op = "parse_duration" /\ c.arg.kind = "text"
            /\ At(c.arg.chars, 1) = "-"
            => c.ret = Error("ValueError")

C4_Witness ==
    \E i \in DOMAIN calls :
        /\ calls[i].op = "parse_duration"
        /\ calls[i].arg = Text(<<"-", "P", "0", "D">>)
        /\ calls[i].ret = Error("ValueError")

(***************************************************************************)
(* C5: malformed text fails with ValueError in both parsers: parse_datetime*)
(* on a text matching neither date-time pattern, parse_duration on a text  *)
(* that is not a complete duration, the text "P" with no component         *)
(* included.                                                               *)
(***************************************************************************)
\* a duration text with at least one component
CompleteDuration(text) ==
    LET match == RE_ISO_8601_DURATION(text)
    IN  match # NoMatch /\ \E k \in 2..7 : match[k] # None

C5_MalformedFails ==
    \A i \in DOMAIN calls :
        LET c == calls[i]
        IN  /\ (/\ c.op = "parse_datetime" /\ c.arg.kind = "text"
                /\ RE_ISO_8601_DATETIME_LONG(c.arg.chars) = NoMatch
                /\ RE_ISO_8601_DATETIME_SHORT(c.arg.chars) = NoMatch
                => c.ret = Error("ValueError"))
            /\ (/\ c.op = "parse_duration" /\ c.arg.kind = "text"
                /\ ~CompleteDuration(c.arg.chars)
                => c.ret = Error("ValueError"))

(***************************************************************************)
(* C6: for a non-negative elapsed time of d days, s seconds and u          *)
(* microseconds encode_duration returns 'P', '<d>D' iff d # 0, 'T0S' iff   *)
(* the value is zero and, iff s or u is not zero, 'T' with the non-zero    *)
(* hours, the non-zero minutes and the seconds (six fractional digits iff  *)
(* u # 0, else a whole number iff the seconds are not zero); never a bare  *)
(* 'P', never a text ending in 'T'.                                        *)
(***************************************************************************)
Canonical(d, s, u) ==
    <<"P">>
        \o (IF d # 0 THEN Decimal(d) \o <<"D">> ELSE <<>>)
        \o (IF d = 0 /\ s = 0 /\ u = 0 THEN <<"T", "0", "S">> ELSE <<>>)
        \o (IF s # 0 \/ u # 0
            THEN <<"T">>
                     \o (IF s \div 3600 # 0 THEN Decimal(s \div 3600) \o <<"H">> ELSE <<>>)
                     \o (IF (s % 3600) \div 60 # 0
                         THEN Decimal((s % 3600) \div 60) \o <<"M">> ELSE <<>>)
                     \o (IF u # 0 THEN Decimal(s % 60) \o <<".">> \o Pad(u, 6) \o <<"S">>
                         ELSE IF s % 60 # 0 THEN Decimal(s % 60) \o <<"S">>
                         ELSE <<>>)
            ELSE <<>>)

C6_EncodedForm ==
    \A i \in DOMAIN calls :
        LET c == calls[i]
        IN  /\ c.op = "encode_duration" /\ c.arg.kind = "timedelta"
            /\ c.arg.days >= 0
            => /\ c.ret.kind = "text"
               /\ c.ret.chars = Canonical(c.arg.days, c.arg.seconds, c.arg.microseconds)
               /\ c.ret.chars # <<"P">>
               /\ c.ret.chars[Len(c.ret.chars)] # "T"
               /\ LET match == RE_ISO_8601_DURATION(c.ret.chars)
                  IN  match # NoMatch /\ match[1] = None /\ match[2] = None
                          /\ match[3] = None

\* 5.5 seconds is PT5.500000S
C6_Witness ==
    \E i \in DOMAIN calls :
        /\ calls[i].op = "encode_duration"
        /\ calls[i].arg = [kind |-> "timedelta", days |-> 0, seconds |-> 5,
                           microseconds |-> 500000]
        /\ calls[i].ret
               = Text(<<"P", "T", "5", ".", "5", "0", "0", "0", "0", "0", "S">>)

(***************************************************************************)
(* C7: the text encode_duration returns never holds a 'Y', nor an 'M'      *)
(* before the 'T'.  As claimed, it begins with 'P' for every value,        *)
(* negative ones included; as amended, it begins with 'P' for a value      *)
(* >= 0 and with '-P' for a negative value.                                *)
(***************************************************************************)
\* no year designator, and no month designator: no 'M' before the first 'T'
NoYearNoMonth(chars) ==
    \A k \in DOMAIN chars :
        /\ chars[k] # "Y"
        /\ chars[k] = "M" => \E j \in 1..(k - 1) : chars[j] = "T"

C7_BeginsWithP ==
    \A i \in DOMAIN calls :
        LET c == calls[i]
        IN  c.op = "encode_duration" /\ c.ret.kind = "text" =>
                c.ret.chars[1] = "P" /\ NoYearNoMonth(c.ret.chars)

C7_BeginsWithSignedP ==
    \A i \in DOMAIN calls :
        LET c == calls[i]
        IN  c.op = "encode_duration" /\ c.arg.kind = "timedelta" =>
                /\ c.ret.kind = "text"
                /\ c.arg.days >= 0 => c.ret.chars[1] = "P"
                /\ c.arg.days < 0 => c.ret.chars[1] = "-" /\ c.ret.chars[2] = "P"
                /\ NoYearNoMonth(c.ret.chars)

C7_Witness ==
    \E i \in DOMAIN calls :
        /\ calls[i].op = "encode_duration"
        /\ calls[i].arg.days < 0
        /\ calls[i].ret.kind = "text"
        /\ Sub(calls[i].ret.chars, 1, 2) = <<"-", "P">>
        /\ \E k \in DOMAIN calls[i].ret.chars : calls[i].ret.chars[k] = "M"

(***************************************************************************)
(* C8: the value parse_duration returns is never negative, whether it was  *)
(* given a text or an elapsed time that it hands through.                  *)
(***************************************************************************)
C8_NeverNegative ==
    \A i \in DOMAIN calls :
        LET c == calls[i]
        IN  c.op = "parse_duration" /\ c.ret.kind = "timedelta" => c.ret.days >= 0

(***************************************************************************)
(* C9: a day-only text P<n>D, n without leading zeros, comes back from     *)
(* encode_duration(parse_duration(text)) unchanged.  As claimed, for every *)
(* n >= 0; as amended, for every n in 1..999999999.                        *)
(***************************************************************************)
\* call i parsed a day-only text whose round trip gives the text back
RoundTrips(i) ==
    /\ calls[i].ret.kind = "timedelta"
    /\ encode_duration(calls[i].ret) = calls[i].arg
    /\ i < Len(calls) /\ calls[i + 1].op = "encode_duration"
           => calls[i + 1].ret = calls[i].arg

C9_DayRoundTrip ==
    \A i \in DOMAIN calls :
        calls[i].op = "parse_duration" /\ calls[i].given.form = "days"
            => RoundTrips(i)

C9_PositiveDayRoundTrip ==
    \A i \in DOMAIN calls :
        /\ calls[i].op = "parse_duration" /\ calls[i].given.form = "days"
        /\ calls[i].given.n >= 1 /\ calls[i].given.n <= MaxDeltaDays
        => RoundTrips(i)

C9_Witness ==
    /\ Len(calls) = 2
    /\ calls[1].op = "parse_duration" /\ calls[1].given.form = "days"
    /\ calls[1].given.n = 12
    /\ calls[2].op = "encode_duration"
    /\ calls[2].ret = Text(<<"P", "1", "2", "D">>)

(***************************************************************************)
(* C10: every value parse_datetime returns is a timestamp without zone     *)
(* holding the UTC instant of its input: of a text with Z or an offset, of *)
(* a text without zone (UTC when no assumed zone is given, else the        *)
(* assumed zone), of a typed timestamp (its own zone, UTC when it has      *)
(* none).                                                                  *)
(***************************************************************************)
\* the UTC instant the input of call c stands for
InputInstant(c) ==
    IF c.arg.kind = "datetime"
    THEN Shifted(c.arg.year, c.arg.month, c.arg.day, c.arg.hour, c.arg.minute,
                 c.arg.second, c.arg.microsecond, ZoneMinutes(c.arg.tzinfo))
    ELSE WrittenShifted(c.given.fields,
                        IF c.given.fields.zone # <<>>
                        THEN WrittenOffset(c.given.fields.zone)
                        ELSE ZoneMinutes(c.tz_local))

C10_NaiveUtc ==
    \A i \in DOMAIN calls :
        LET c == calls[i]
        IN  c.op = "parse_datetime" /\ c.ret.kind = "datetime" =>
                /\ c.ret.tzinfo = NoZone
                /\ c.given.form # "raw" => Civil(c.ret) = InputInstant(c)

C10_Witness ==
    \E i \in DOMAIN calls :
        /\ calls[i].op = "parse_datetime" /\ Spelled(calls[i])
        /\ calls[i].given.fields.zone = <<>>
        /\ calls[i].given.fields.hour = <<"0", "0">>
        /\ calls[i].tz_local # NoZone
        /\ ZoneMinutes(calls[i].tz_local) = 120
        /\ calls[i].ret.kind = "datetime"
        /\ calls[i].ret.hour = 22

(***************************************************************************)
(* C11: encode_duration is a right inverse of parse_duration on the values *)
(* >= 0 and on those only: for v >= 0, parse_duration(encode_duration(v))  *)
(* is v; for v < 0, encode_duration(v) is '-' followed by                  *)
(* encode_duration(-v), and parse_duration raises ValueError for it.       *)
(***************************************************************************)
\* what parse_duration makes of the text call i returned: the call that
\* follows, when there is one, agrees
ParsedBack(i, result) ==
    /\ calls[i].ret.kind = "text"
    /\ parse_duration(calls[i].ret) = result
    /\ i < Len(calls) /\ calls[i + 1].op = "parse_duration"
           => calls[i + 1].arg = calls[i].ret /\ calls[i + 1].ret = result

C11_RightInverse ==
    \A i \in DOMAIN calls :
        LET c == calls[i]
        IN  c.op = "encode_duration" /\ c.arg.kind = "timedelta" =>
                /\ c.arg.days >= 0 => ParsedBack(i, c.arg)
                /\ c.arg.days < 0 =>
                       /\ ParsedBack(i, Error("ValueError"))
                       /\ encode_duration(Negated(c.arg)).kind = "text"
                       /\ c.ret.chars
                              = <<"-">> \o encode_duration(Negated(c.arg)).chars

\* 2 days 23:59:59.999999 written and read back
C11_Witness ==
    /\ Len(calls) = 2
    /\ calls[1].op = "encode_duration"
    /\ calls[1].arg = [kind |-> "timedelta", days |-> 2, seconds |-> 86399,
                       microseconds |-> 999999]
    /\ calls[1].ret = Text(<<"P", "2", "D", "T", "2", "3", "H", "5", "9", "M",
                             "5", "9", ".", "9", "9", "9", "9", "9", "9", "S">>)
    /\ calls[2].op = "parse_duration"
    /\ calls[2].ret = calls[1].arg

====
